---- MODULE Spec2Model ----
(***************************************************************************)
(* Model of create_app.py: the provisioning script that registers an OAuth *)
(* application, adds a client secret, creates the service principal,       *)
(* resolves and attaches an owner, assigns API permissions and rewrites    *)
(* the internal notes, through the Microsoft Graph HTTP API.               *)
(*                                                                         *)
(* The script is one sequential process.  Its state is the position in     *)
(* __main__ (pc), its local variables, the exception that ended it, the    *)
(* transcript of everything it sent (token acquisitions and API requests,  *)
(* in order) and the remote directory the API keeps.  The token endpoint   *)
(* and the API are the environment: every call draws their answers from    *)
(* the small sets below.                                                   *)
(***************************************************************************)
EXTENDS Integers, Sequences, FiniteSets, TLC

VARIABLES pc, env, app, secret, sp, owner_id, error, stdout, log, directory

vars == <<pc, env, app, secret, sp, owner_id, error, stdout, log, directory>>

---------------------------------------------------------------------------
(* Bounds of the model. *)

\* longest user list the /users lookup returns
MaxUsers == 2

\* most comma-separated pieces in REDIRECT_URIS
MaxPieces == 2

---------------------------------------------------------------------------
(* Python values. *)

\* None where a string is expected (an unset environment variable)
NoneStr == "<None>"

\* None where a dict is expected (payload=None, params=None)
NoneDict == [py_none |-> TRUE]

\* the empty dict {}
EmptyDict == <<>>

\* Truthy as an "is not None" test: the empty string counts as set
TruthyNotNone(s) == s # NoneStr

\* truth value of an optional string: None and "" are falsy
Truthy(s) == s # NoneStr /\ s # ""

\* d.get(key, default)
DictGet(d, key, default) == IF key \in DOMAIN d THEN d[key] ELSE default

\* Exception(message); the message is kept as the fragments it is formatted
\* from (a plain string is one fragment)
Exception(message) == [type |-> "Exception", args |-> message]

\* the KeyError of d[key] on a missing key
KeyError(key) == [type |-> "KeyError", args |-> <<key>>]

\* the error of r.json() on an empty body
JSONDecodeError == [type |-> "JSONDecodeError", args |-> <<"Expecting value">>]

\* no exception has been raised
NoError == [type |-> "none", args |-> <<>>]

---------------------------------------------------------------------------
(* Module constants of create_app.py. *)

GRAPH_SCOPE == <<"https://graph.microsoft.com/.default">>

GRAPH_BASE == "https://graph.microsoft.com/v1.0"

\* the literal of the notes update in __main__
NOTES_LITERAL == "Updated notes: now managed by CloudOps"

---------------------------------------------------------------------------
(* The environment: identifiers and answers the remote side can give. *)

\* object ids the directory gives to applications
ObjIds == {"obj-1", "obj-2"}

\* client ids (appId) the directory gives to applications
CliIds == {"cli-1", "cli-2"}

\* object ids of service principals
SpIds == {"sp-1"}

\* object ids of users
UserIds == {"u-123", "u-456"}

\* tokens the token endpoint issues, in the order it issues them
TokenPool == <<"tok-1", "tok-2", "tok-3", "tok-4", "tok-5", "tok-6", "tok-7", "tok-8">>

\* str(status_code)
StatusStr(s) ==
    CASE s = 200 -> "200" [] s = 201 -> "201" [] s = 204 -> "204"
      [] s = 403 -> "403" [] s = 500 -> "500"

\* requests' Response.ok
Ok(r) == r.status < 400

FailStatuses == {403, 500}

ErrTexts == {"Forbidden", ""}

\* non-success answers of the API
FailResponses ==
    {[status |-> s, text |-> t, json |-> EmptyDict, resource |-> EmptyDict] :
        s \in FailStatuses, t \in ErrTexts}

\* a success answer with an empty body
EmptyOk(s, res) == [status |-> s, text |-> "", json |-> EmptyDict, resource |-> res]

\* a success answer whose body is the JSON document j; resource is what the
\* directory created or returned, j the part of it the body shows
JsonOk(s, j, res) == [status |-> s, text |-> "{json}", json |-> j, resource |-> res]

TokenEvents == {i \in 1..Len(log) : log[i].kind = "token"}

IssuedTokens == {i \in TokenEvents : "access_token" \in DOMAIN log[i].resp}

\* answers of the token endpoint: a fresh token or an error document
TokenResponses ==
    {[access_token |-> TokenPool[Cardinality(IssuedTokens) + 1]],
     [error |-> "invalid_client"]}

---------------------------------------------------------------------------
(* Transcript entries. *)

\* one call of the token endpoint and its answer
TokenEvent(resp) == [kind |-> "token", resp |-> resp]

\* one API request and its answer; the Authorization header is kept as the
\* fragments of f"Bearer {token}"
RequestEvent(method, url, token, json, params, resp) ==
    [kind |-> "request", method |-> method, url |-> url,
     headers |-> [Authorization |-> <<"Bearer ", token>>,
                  ContentType |-> "application/json"],
     json |-> json, params |-> params, resp |-> resp]

---------------------------------------------------------------------------
(* Helpers of create_app.py.  A call's result is a record: the transcript  *)
(* entries it produced, whether it raised, the exception, the value.       *)

Raised(events, exc) == [events |-> events, raised |-> TRUE, exc |-> exc, value |-> EmptyDict]

Returned(events, value) == [events |-> events, raised |-> FALSE, exc |-> NoError, value |-> value]

\* get_token without the check for a missing access token
get_tokenUnchecked(tr) ==
    Returned(<<TokenEvent(tr)>>, DictGet(tr, "access_token", NoneStr))

\* get_token(): tr is the answer of acquire_token_for_client
get_token(tr) ==
    IF "access_token" \notin DOMAIN tr
    THEN Raised(<<TokenEvent(tr)>>, Exception(<<tr>>))
    ELSE Returned(<<TokenEvent(tr)>>, tr.access_token)

\* the message of graph_call's exception, as the fragments of
\* f"{method} {url} failed: {r.status_code} {r.text}"
GraphCallMessage(method, url, r) ==
    <<method, " ", url, " failed: ", StatusStr(r.status), " ", r.text>>

\* graph_call with the token cached: once a token was issued it is reused
\* and the token endpoint is not called again
graph_callCachedToken(method, endpoint, payload, params, tr, r) ==
    LET cached == IssuedTokens # {}
        last == CHOOSE i \in IssuedTokens : \A j \in IssuedTokens : j <= i
        token == IF cached THEN Returned(<<>>, log[last].resp.access_token)
                 ELSE get_token(tr)
        url == GRAPH_BASE \o endpoint
        events == token.events \o
                  <<RequestEvent(method, url, token.value, payload, params, r)>>
    IN  IF token.raised THEN token
        ELSE IF ~Ok(r) THEN Raised(events, Exception(GraphCallMessage(method, url, r)))
        ELSE IF r.text # "" THEN Returned(events, r.json)
        ELSE Returned(events, EmptyDict)

\* graph_call(method, endpoint, payload, params): tr is the answer of the
\* token endpoint, r the answer of the API
graph_call(method, endpoint, payload, params, tr, r) ==
    LET token == get_token(tr)
        url == GRAPH_BASE \o endpoint
        events == token.events \o
                  <<RequestEvent(method, url, token.value, payload, params, r)>>
    IN  IF token.raised THEN token
        ELSE IF ~Ok(r) THEN Raised(events, Exception(GraphCallMessage(method, url, r)))
        ELSE IF r.text # "" THEN Returned(events, r.json)
        ELSE Returned(events, EmptyDict)

---------------------------------------------------------------------------
(* Actions of create_app.py (the functions under "Actions"). *)

create_app(display_name, redirect_uris, notes_text, tr, r) ==
    LET body == [displayName |-> display_name,
                 signInAudience |-> "AzureADMyOrg",
                 web |-> [redirectUris |-> redirect_uris],
                 notes |-> notes_text]
    IN  graph_call("POST", "/applications", body, NoneDict, tr, r)

add_secret(app_object_id, tr, r) ==
    LET token == get_token(tr)
        url == GRAPH_BASE \o "/applications/" \o app_object_id \o "/addPassword"
        body == [passwordCredential |-> [displayName |-> "auto-secret"]]
        events == token.events \o
                  <<RequestEvent("POST", url, token.value, body, NoneDict, r)>>
    IN  IF token.raised THEN token
        ELSE IF ~Ok(r) THEN Raised(events, Exception(<<r.text>>))
        ELSE IF r.text = "" THEN Raised(events, JSONDecodeError)
        ELSE Returned(events, r.json)

create_service_principal(appid, tr, r) ==
    graph_call("POST", "/servicePrincipals",
               [appId |-> appid, accountEnabled |-> TRUE], NoneDict, tr, r)

\* the $filter of the user lookup, as the fragments of
\* f"mailNickname eq '{mailnickname}'"
UserFilter(mailnickname) == <<"mailNickname eq '", mailnickname, "'">>

\* resolve_user_by_mailnickname returning None instead of raising when the
\* lookup finds nobody
resolve_userNoneWhenEmpty(mailnickname, tr, r) ==
    LET params == [filter |-> UserFilter(mailnickname),
                   select |-> "id,displayName,mailNickname"]
        result == graph_call("GET", "/users", NoneDict, params, tr, r)
        users == DictGet(result.value, "value", <<>>)
    IN  IF result.raised THEN result
        ELSE IF users = <<>> THEN Returned(result.events, NoneStr)
        ELSE Returned(result.events, users[1].id)

\* resolve_user_by_mailnickname taking the last match instead of the first
resolve_userLastMatch(mailnickname, tr, r) ==
    LET params == [filter |-> UserFilter(mailnickname),
                   select |-> "id,displayName,mailNickname"]
        result == graph_call("GET", "/users", NoneDict, params, tr, r)
        users == DictGet(result.value, "value", <<>>)
    IN  IF result.raised THEN result
        ELSE IF users = <<>>
             THEN Raised(result.events,
                         Exception(<<"No user found with mailNickname='",
                                     mailnickname, "'">>))
        ELSE Returned(result.events, users[Len(users)].id)

resolve_user_by_mailnickname(mailnickname, tr, r) ==
    LET params == [filter |-> UserFilter(mailnickname),
                   select |-> "id,displayName,mailNickname"]
        result == graph_call("GET", "/users", NoneDict, params, tr, r)
        users == DictGet(result.value, "value", <<>>)
    IN  IF result.raised THEN result
        ELSE IF users = <<>>
             THEN Raised(result.events,
                         Exception(<<"No user found with mailNickname='",
                                     mailnickname, "'">>))
        ELSE Returned(result.events, users[1].id)

add_owner(app_object_id, owner_object_id, tr, r) ==
    LET body == ("@odata.id" :> (GRAPH_BASE \o "/directoryObjects/" \o owner_object_id))
    IN  graph_call("POST", "/applications/" \o app_object_id \o "/owners/$ref",
                   body, NoneDict, tr, r)

\* the fixed permission list of add_api_permissions
Permissions ==
    <<[id |-> "df021288-bdef-4463-88db-98f22de89214", type |-> "Role"],
      [id |-> "e1fe6dd8-ba31-4d61-89e7-88639da4683d", type |-> "Scope"]>>

add_api_permissions(app_object_id, tr, r) ==
    LET body == [requiredResourceAccess |->
                    <<[resourceAppId |-> "00000003-0000-0000-c000-000000000000",
                       resourceAccess |-> Permissions]>>]
    IN  graph_call("PATCH", "/applications/" \o app_object_id, body, NoneDict, tr, r)

update_internal_notes(app_object_id, notes, tr, r) ==
    graph_call("PATCH", "/applications/" \o app_object_id, [notes |-> notes],
               NoneDict, tr, r)

---------------------------------------------------------------------------
(* The remote directory behind the API: what a successful request does.    *)

\* the application a successful POST /applications creates
NewApplication(e) ==
    [appId |-> e.resp.resource.appId,
     displayName |-> e.json.displayName,
     signInAudience |-> e.json.signInAudience,
     redirectUris |-> e.json.web.redirectUris,
     notes |-> e.json.notes,
     owners |-> {},
     passwordCredentials |-> {},
     requiredResourceAccess |-> <<>>]

\* PATCH: the properties named in the body replace the stored ones
Patched(a, json) == [k \in DOMAIN a |-> IF k \in DOMAIN json THEN json[k] ELSE a[k]]

\* the directory after the request of transcript entry e
ServerApply(dir, e) ==
    LET apps == dir.applications
        ids == DOMAIN apps
        AppUrl(id) == GRAPH_BASE \o "/applications/" \o id
        Update(id, a) == [dir EXCEPT !.applications = [apps EXCEPT ![id] = a]]
    IN  IF e.kind # "request" \/ ~Ok(e.resp) THEN dir
        ELSE IF e.method = "POST" /\ e.url = GRAPH_BASE \o "/applications"
        THEN [dir EXCEPT !.applications = (e.resp.resource.id :> NewApplication(e)) @@ apps]
        ELSE IF e.method = "POST" /\ e.url = GRAPH_BASE \o "/servicePrincipals"
        THEN [dir EXCEPT !.servicePrincipals = @ \cup {e.resp.resource}]
        ELSE IF e.method = "POST" /\ \E id \in ids : e.url = AppUrl(id) \o "/addPassword"
        THEN LET id == CHOOSE i \in ids : e.url = AppUrl(i) \o "/addPassword"
             IN  Update(id, [apps[id] EXCEPT !.passwordCredentials =
                                @ \cup {e.json.passwordCredential.displayName}])
        ELSE IF e.method = "POST" /\ \E id \in ids : e.url = AppUrl(id) \o "/owners/$ref"
        THEN LET id == CHOOSE i \in ids : e.url = AppUrl(i) \o "/owners/$ref"
             IN  Update(id, [apps[id] EXCEPT !.owners = @ \cup {e.json["@odata.id"]}])
        ELSE IF e.method = "PATCH" /\ \E id \in ids : e.url = AppUrl(id)
        THEN LET id == CHOOSE i \in ids : e.url = AppUrl(i)
             IN  Update(id, Patched(apps[id], e.json))
        ELSE dir

RECURSIVE ServerApplyAll(_, _)
\* the directory after all the requests of a call, in order
ServerApplyAll(dir, events) ==
    IF events = <<>> THEN dir
    ELSE ServerApplyAll(ServerApply(dir, Head(events)), Tail(events))

\* answers to POST /applications
CreateAppResponses ==
    FailResponses \cup {EmptyOk(201, [id |-> "obj-1", appId |-> "cli-1"])}
    \cup {JsonOk(201, [id |-> i, appId |-> c], [id |-> i, appId |-> c]) :
            i \in ObjIds, c \in CliIds}
    \cup {JsonOk(201, [id |-> "obj-1"], [id |-> "obj-1", appId |-> "cli-1"]),
          JsonOk(201, [appId |-> "cli-1"], [id |-> "obj-1", appId |-> "cli-1"])}

\* answers to POST /applications/{id}/addPassword
AddSecretResponses ==
    FailResponses \cup {EmptyOk(200, EmptyDict)}
    \cup {JsonOk(200, [secretText |-> "s3cr3t", displayName |-> "auto-secret"], EmptyDict),
          JsonOk(200, [displayName |-> "auto-secret"], EmptyDict)}

\* answers to POST /servicePrincipals for client id c
ServicePrincipalResponses(c) ==
    FailResponses \cup {EmptyOk(201, [id |-> "sp-1", appId |-> c])}
    \cup {JsonOk(201, [id |-> i, appId |-> c], [id |-> i, appId |-> c]) : i \in SpIds}

RECURSIVE SeqsUpTo(_, _)
\* the sequences of at most n elements of S
SeqsUpTo(S, n) ==
    IF n = 0 THEN {<<>>}
    ELSE SeqsUpTo(S, n - 1)
         \cup {Append(q, x) : q \in {p \in SeqsUpTo(S, n - 1) : Len(p) = n - 1}, x \in S}

\* answers to GET /users
UsersResponses ==
    FailResponses \cup {EmptyOk(200, EmptyDict)}
    \cup {JsonOk(200, [value |-> [k \in 1..Len(q) |-> [id |-> q[k]]]], EmptyDict) :
            q \in SeqsUpTo(UserIds, MaxUsers)}

\* answers to POST owners/$ref and to PATCH: 204 No Content
NoContentResponses == FailResponses \cup {EmptyOk(204, EmptyDict)}

---------------------------------------------------------------------------
(* __main__: reading the configuration. *)

\* the pieces REDIRECT_URIS.split(",") can give
RawPieces == {"", " ", " https://a.example/cb ", "https://b.example/cb"}

\* str.strip()
Strip(u) ==
    CASE u = " " -> ""
      [] u = " https://a.example/cb " -> "https://a.example/cb"
      [] OTHER -> u

RECURSIVE RedirectUrisList(_)
\* [u.strip() for u in redirect_uris.split(",") if u.strip()], on the pieces
RedirectUrisList(pieces) ==
    IF pieces = <<>> THEN <<>>
    ELSE IF Strip(Head(pieces)) # ""
         THEN <<Strip(Head(pieces))>> \o RedirectUrisList(Tail(pieces))
         ELSE RedirectUrisList(Tail(pieces))

\* values of APP_DISPLAY_NAME
DisplayNames == {"demo-app"}

\* values of NOTES_TEXT
NotesTexts == {NoneStr, "caller notes", NOTES_LITERAL}

\* values of OWNER_MAILNICKNAME
OwnerNicknames == {NoneStr, "", "jdoe"}

\* the configurations a run can start with
Environments ==
    {[display_name |-> d, redirect_uris_list |-> RedirectUrisList(p),
      NOTES_TEXT |-> n, OWNER_MAILNICKNAME |-> o] :
        d \in DisplayNames, p \in SeqsUpTo(RawPieces, MaxPieces),
        n \in NotesTexts, o \in OwnerNicknames}

Init ==
    /\ pc = "create_app"
    /\ env \in Environments
    /\ app = EmptyDict
    /\ secret = EmptyDict
    /\ sp = EmptyDict
    /\ owner_id = NoneStr
    /\ error = NoError
    /\ stdout = <<>>
    /\ log = <<>>
    /\ directory = [applications |-> <<>>, servicePrincipals |-> {}]

---------------------------------------------------------------------------
(* __main__: the steps. *)

\* Propagate with the failure of add_api_permissions caught and ignored
PropagateSwallowed(exc, resume) ==
    IF resume = "update_internal_notes"
    THEN pc' = resume /\ error' = error
    ELSE pc' = "failed" /\ error' = exc

\* an exception nothing catches ends the process; resume is the statement
\* control would have reached
Propagate(exc, resume) == pc' = "failed" /\ error' = exc

\* Goto with the secret added after the service principal instead of before
GotoSecretAfterPrincipal(next) ==
    /\ pc' = CASE next = "add_secret" -> "create_service_principal"
                [] next = "owner" -> "add_secret"
                [] next = "create_service_principal" -> "owner"
                [] OTHER -> next
    /\ error' = error

\* a statement completes: control moves on
Goto(next) == pc' = next /\ error' = error

\* print(...)
print_line(line) == stdout' = Append(stdout, line)

\* the requests of a call reach the API and are recorded
Send(out) ==
    /\ log' = log \o out.events
    /\ directory' = ServerApplyAll(directory, out.events)

\* app["id"] transposed with app["appId"]
AppObjectIdTransposed == app.appId

\* the notes argument taken from the caller's NOTES_TEXT
NotesFromCaller == env.NOTES_TEXT

\* app["id"], the argument of add_secret, add_owner, add_api_permissions and
\* update_internal_notes
AppObjectId == app.id

\* app["appId"], the argument of create_service_principal
AppClientId == app.appId

\* the notes argument of update_internal_notes
NotesArgument == NOTES_LITERAL

\* lines 119-120
CreateApp ==
    /\ pc = "create_app"
    /\ \E tr \in TokenResponses, r \in CreateAppResponses :
         LET out == create_app(env.display_name, env.redirect_uris_list,
                               env.NOTES_TEXT, tr, r)
         IN  /\ Send(out)
             /\ IF out.raised
                THEN Propagate(out.exc, "add_secret") /\ UNCHANGED <<app, stdout>>
                ELSE /\ app' = out.value
                     /\ IF "appId" \notin DOMAIN out.value
                        THEN Propagate(KeyError("appId"), "add_secret") /\ UNCHANGED stdout
                        ELSE print_line(<<"Application created:", out.value.appId>>)
                             /\ Goto("add_secret")
    /\ UNCHANGED <<env, secret, sp, owner_id>>

\* lines 123-124
AddSecret ==
    /\ pc = "add_secret"
    /\ IF "id" \notin DOMAIN app
       THEN Propagate(KeyError("id"), "create_service_principal")
            /\ UNCHANGED <<secret, stdout, log, directory>>
       ELSE \E tr \in TokenResponses, r \in AddSecretResponses :
              LET out == add_secret(AppObjectId, tr, r)
              IN  /\ Send(out)
                  /\ IF out.raised
                     THEN Propagate(out.exc, "create_service_principal")
                          /\ UNCHANGED <<secret, stdout>>
                     ELSE /\ secret' = out.value
                          /\ IF "secretText" \notin DOMAIN out.value
                             THEN Propagate(KeyError("secretText"), "create_service_principal")
                                  /\ UNCHANGED stdout
                             ELSE print_line(<<"Client Secret (save now!):", out.value.secretText>>)
                                  /\ Goto("create_service_principal")
    /\ UNCHANGED <<env, app, sp, owner_id>>

\* lines 127-128
CreateServicePrincipal ==
    /\ pc = "create_service_principal"
    /\ \E tr \in TokenResponses, r \in ServicePrincipalResponses(AppClientId) :
         LET out == create_service_principal(AppClientId, tr, r)
         IN  /\ Send(out)
             /\ IF out.raised
                THEN Propagate(out.exc, "owner") /\ UNCHANGED <<sp, stdout>>
                ELSE /\ sp' = out.value
                     /\ IF "id" \notin DOMAIN out.value
                        THEN Propagate(KeyError("id"), "owner") /\ UNCHANGED stdout
                        ELSE print_line(<<"Service Principal created:", out.value.id>>)
                             /\ Goto("owner")
    /\ UNCHANGED <<env, app, secret, owner_id>>

\* lines 131-132
ResolveOwner ==
    /\ pc = "owner"
    /\ Truthy(env.OWNER_MAILNICKNAME)
    /\ \E tr \in TokenResponses, r \in UsersResponses :
         LET out == resolve_user_by_mailnickname(env.OWNER_MAILNICKNAME, tr, r)
         IN  /\ Send(out)
             /\ IF out.raised
                THEN Propagate(out.exc, "add_owner") /\ UNCHANGED owner_id
                ELSE owner_id' = out.value /\ Goto("add_owner")
    /\ UNCHANGED <<env, app, secret, sp, stdout>>

\* lines 133-134
AddOwner ==
    /\ pc = "add_owner"
    /\ \E tr \in TokenResponses, r \in NoContentResponses :
         LET out == add_owner(AppObjectId, owner_id, tr, r)
         IN  /\ Send(out)
             /\ IF out.raised
                THEN Propagate(out.exc, "add_api_permissions") /\ UNCHANGED stdout
                ELSE print_line(<<"Owner added (mailNickname=", env.OWNER_MAILNICKNAME,
                             ", objectId=", owner_id, ")">>)
                     /\ Goto("add_api_permissions")
    /\ UNCHANGED <<env, app, secret, sp, owner_id>>

\* lines 131, 135-136
SkipOwner ==
    /\ pc = "owner"
    /\ ~Truthy(env.OWNER_MAILNICKNAME)
    /\ print_line(<<"No OWNER_MAILNICKNAME set, skipping owner assignment.">>)
    /\ Goto("add_api_permissions")
    /\ UNCHANGED <<env, app, secret, sp, owner_id, log, directory>>

\* lines 139-140
AddApiPermissions ==
    /\ pc = "add_api_permissions"
    /\ \E tr \in TokenResponses, r \in NoContentResponses :
         LET out == add_api_permissions(AppObjectId, tr, r)
         IN  /\ Send(out)
             /\ IF out.raised
                THEN Propagate(out.exc, "update_internal_notes") /\ UNCHANGED stdout
                ELSE print_line(<<"API permissions added (Graph User.Read + User.Read.All).">>)
                     /\ Goto("update_internal_notes")
    /\ UNCHANGED <<env, app, secret, sp, owner_id>>

\* lines 143-144
UpdateInternalNotes ==
    /\ pc = "update_internal_notes"
    /\ \E tr \in TokenResponses, r \in NoContentResponses :
         LET out == update_internal_notes(AppObjectId, NotesArgument, tr, r)
         IN  /\ Send(out)
             /\ IF out.raised
                THEN Propagate(out.exc, "done") /\ UNCHANGED stdout
                ELSE print_line(<<"Internal notes updated.">>) /\ Goto("done")
    /\ UNCHANGED <<env, app, secret, sp, owner_id>>

Next ==
    \/ CreateApp
    \/ AddSecret
    \/ CreateServicePrincipal
    \/ ResolveOwner
    \/ AddOwner
    \/ SkipOwner
    \/ AddApiPermissions
    \/ UpdateInternalNotes

Spec == Init /\ [][Next]_vars

---------------------------------------------------------------------------
(* Reading the transcript. *)

IsRequest(e) == e.kind = "request"

\* the API requests issued so far, in order
Requests == SelectSeq(log, IsRequest)

\* positions of the API requests in the transcript
RequestEvents == {i \in 1..Len(log) : log[i].kind = "request"}

\* positions of the token acquisitions that returned no access token
FailedTokens == TokenEvents \ IssuedTokens

\* any identifier the directory hands out for an application
AnyAppIds == ObjIds \cup CliIds

\* the workflow step a request belongs to, read off its method, URL and body
StepOf(e) ==
    IF e.method = "POST" /\ e.url = GRAPH_BASE \o "/applications"
    THEN "create_app"
    ELSE IF e.method = "POST" /\ e.url = GRAPH_BASE \o "/servicePrincipals"
    THEN "create_service_principal"
    ELSE IF e.method = "GET" /\ e.url = GRAPH_BASE \o "/users"
    THEN "resolve_user"
    ELSE IF e.method = "POST"
            /\ \E id \in AnyAppIds :
                 e.url = GRAPH_BASE \o "/applications/" \o id \o "/addPassword"
    THEN "add_secret"
    ELSE IF e.method = "POST"
            /\ \E id \in AnyAppIds :
                 e.url = GRAPH_BASE \o "/applications/" \o id \o "/owners/$ref"
    THEN "add_owner"
    ELSE IF e.method = "PATCH" /\ "requiredResourceAccess" \in DOMAIN e.json
    THEN "add_api_permissions"
    ELSE IF e.method = "PATCH" /\ "notes" \in DOMAIN e.json
    THEN "update_internal_notes"
    ELSE "other"

\* the steps that may directly follow one another
StepOrder ==
    {<<"create_app", "add_secret">>,
     <<"add_secret", "create_service_principal">>,
     <<"create_service_principal", "resolve_user">>,
     <<"create_service_principal", "add_api_permissions">>,
     <<"resolve_user", "add_owner">>,
     <<"add_owner", "add_api_permissions">>,
     <<"add_api_permissions", "update_internal_notes">>}

\* the steps issued so far
StepsIssued == {StepOf(Requests[i]) : i \in 1..Len(Requests)}

---------------------------------------------------------------------------
(* C1 *)

\* C1: no request of a later step is issued unless the create-application
\* request came first, succeeded and returned an object id and a client id;
\* the requests issued follow the fixed order create application, add
\* secret, create service principal, [resolve owner, add owner], add
\* permissions, update notes, and each step is issued at most once.
C1_FixedOrder ==
    /\ Requests # <<>> => StepOf(Requests[1]) = "create_app"
    /\ Len(Requests) >= 2 =>
         /\ Ok(Requests[1].resp)
         /\ app = Requests[1].resp.json
         /\ {"id", "appId"} \subseteq DOMAIN app
         /\ app.id \in DOMAIN directory.applications
    /\ \A i \in 2..Len(Requests) :
         <<StepOf(Requests[i - 1]), StepOf(Requests[i])>> \in StepOrder
    /\ \A i, j \in 1..Len(Requests) :
         i # j => StepOf(Requests[i]) # StepOf(Requests[j])

\* a run that issued all seven steps
C1_Witness == pc = "done" /\ Len(Requests) = 7

---------------------------------------------------------------------------
(* C2 *)

\* C2 as stated: whenever the token endpoint returns a response without an
\* access token, no API request has been issued and no remote resource
\* exists.
C2_NoRequestAtAll ==
    FailedTokens # {} =>
        /\ RequestEvents = {}
        /\ directory.applications = <<>>
        /\ directory.servicePrincipals = {}

\* C2 amended: a token acquisition that returns no access token ends the run
\* with the exception carrying the endpoint's answer, and neither the
\* request of that call nor any later request is issued; when it is the
\* first acquisition of the run, no API request is issued at all and no
\* remote resource is created.
C2_TokenFailureAborts ==
    \A i \in FailedTokens :
        /\ i = Len(log)
        /\ pc = "failed"
        /\ error = Exception(<<log[i].resp>>)
        /\ i = 1 => /\ RequestEvents = {}
                    /\ directory.applications = <<>>
                    /\ directory.servicePrincipals = {}

\* the first token acquisition failed
C2_Witness == pc = "failed" /\ Len(log) = 1 /\ FailedTokens = {1}

---------------------------------------------------------------------------
(* C3 *)

\* the transcript entry is a failure: no token, or a non-success answer
FailedEntry(e) ==
    IF e.kind = "token" THEN "access_token" \notin DOMAIN e.resp ELSE ~Ok(e.resp)

\* the steps a complete run issues under the configuration
ApplicableSteps ==
    {"create_app", "add_secret", "create_service_principal",
     "add_api_permissions", "update_internal_notes"}
    \cup (IF env.OWNER_MAILNICKNAME \notin {NoneStr, ""}
          THEN {"resolve_user", "add_owner"} ELSE {})

\* the state part of C3
C3_State ==
    /\ pc = "done" => /\ error = NoError
                      /\ StepsIssued = ApplicableSteps
                      /\ \A i \in 1..Len(log) : ~FailedEntry(log[i])
    /\ error # NoError <=> pc = "failed"
    /\ \A i \in 1..Len(log) : FailedEntry(log[i]) => i = Len(log) /\ pc = "failed"
    /\ \A i \in RequestEvents : log[i].method \in {"GET", "POST", "PATCH"}

\* the step part of C3: what exists in the directory stays
C3_Kept ==
    /\ DOMAIN directory.applications \subseteq DOMAIN directory'.applications
    /\ directory.servicePrincipals \subseteq directory'.servicePrincipals
    /\ \A id \in DOMAIN directory.applications :
         /\ directory.applications[id].passwordCredentials
              \subseteq directory'.applications[id].passwordCredentials
         /\ directory.applications[id].owners \subseteq directory'.applications[id].owners

\* C3: the run either completes all applicable steps or stops at the first
\* failing step: a failed token acquisition or request is the last entry of
\* the transcript, no step is taken once an exception was raised, no request
\* other than GET, POST and PATCH is ever issued, and what the directory
\* holds is never removed.
C3_StopsAtFirstFailure ==
    [][error = NoError /\ pc # "failed" /\ C3_State' /\ C3_Kept]_vars

\* the run failed at service-principal creation, leaving the application and
\* its secret behind
C3_Witness ==
    /\ pc = "failed"
    /\ Len(Requests) = 3
    /\ ~Ok(Requests[3].resp)
    /\ \E id \in DOMAIN directory.applications :
         directory.applications[id].passwordCredentials # {}

---------------------------------------------------------------------------
(* C4 *)

\* the user list a lookup answer holds: result.get("value", [])
UsersOf(e) == DictGet(e.resp.json, "value", <<>>)

\* the lookup request at position i of Requests found no user
EmptyLookup(i) ==
    /\ StepOf(Requests[i]) = "resolve_user"
    /\ Ok(Requests[i].resp)
    /\ UsersOf(Requests[i]) = <<>>

\* C4: when an owner alias is configured and the lookup returns zero users,
\* the run ends with the "No user found" exception and the add-owner request
\* is never issued, nor the permissions and notes PATCH requests.
C4_NoOwnerOnEmptyLookup ==
    \A i \in 1..Len(Requests) :
        EmptyLookup(i) =>
            /\ pc = "failed"
            /\ error = Exception(<<"No user found with mailNickname='",
                                   env.OWNER_MAILNICKNAME, "'">>)
            /\ i = Len(Requests)
            /\ StepsIssued \cap {"add_owner", "add_api_permissions",
                                 "update_internal_notes"} = {}

\* an alias is configured and the lookup found nobody
C4_Witness ==
    /\ env.OWNER_MAILNICKNAME = "jdoe"
    /\ Len(Requests) = 4
    /\ EmptyLookup(4)
    /\ pc = "failed"

---------------------------------------------------------------------------
(* C5 *)

\* C5: when no owner alias is configured (unset or empty), neither the user
\* lookup nor the add-owner request is ever issued; the request that follows
\* a successful service-principal creation is the permissions PATCH, and the
\* run is not failed by the missing alias.
C5_SkipOwner ==
    env.OWNER_MAILNICKNAME \in {NoneStr, ""} =>
        /\ StepsIssued \cap {"resolve_user", "add_owner"} = {}
        /\ \A i \in 1..Len(Requests) - 1 :
             StepOf(Requests[i]) = "create_service_principal" =>
                /\ Ok(Requests[i].resp)
                /\ StepOf(Requests[i + 1]) = "add_api_permissions"
        /\ pc = "add_api_permissions" => error = NoError /\ Len(Requests) = 3

\* a run with an empty alias that completed
C5_Witness ==
    /\ env.OWNER_MAILNICKNAME = ""
    /\ pc = "done"
    /\ Len(Requests) = 5
    /\ StepOf(Requests[4]) = "add_api_permissions"

---------------------------------------------------------------------------
(* C6 *)

\* C6: the identifiers returned by create-application are never transposed
\* and stay the same for the whole run: every request addressed to
\* /applications/{id} uses the object id of the create-application answer,
\* never the client id, and service-principal creation uses the client id,
\* never the object id.
C6_IdentifiersNotTransposed ==
    \A i \in 2..Len(Requests) :
        LET e == Requests[i]
            created == Requests[1].resp.json
            byObjectId == GRAPH_BASE \o "/applications/" \o created.id
            byClientId == GRAPH_BASE \o "/applications/" \o created.appId
        IN  /\ StepOf(e) = "add_secret" =>
                e.url = byObjectId \o "/addPassword"
                /\ e.url # byClientId \o "/addPassword"
            /\ StepOf(e) = "add_owner" =>
                e.url = byObjectId \o "/owners/$ref"
                /\ e.url # byClientId \o "/owners/$ref"
            /\ StepOf(e) \in {"add_api_permissions", "update_internal_notes"} =>
                e.url = byObjectId /\ e.url # byClientId
            /\ StepOf(e) = "create_service_principal" =>
                e.json.appId = created.appId /\ e.json.appId # created.id

\* a complete run with an owner: all six later requests were issued
C6_Witness ==
    /\ pc = "done"
    /\ Len(Requests) = 7
    /\ Requests[1].resp.json.id = "obj-2"
    /\ Requests[1].resp.json.appId = "cli-1"

---------------------------------------------------------------------------
(* C7 *)

\* C7: whenever the add-owner request is issued, its payload reference is
\* the base API URL, "/directoryObjects/" and the object id of the first
\* user of the list the lookup returned: the only match when there is one,
\* the first with no error when there are several.
C7_OwnerReference ==
    \A i \in 2..Len(Requests) :
        StepOf(Requests[i]) = "add_owner" =>
            /\ StepOf(Requests[i - 1]) = "resolve_user"
            /\ UsersOf(Requests[i - 1]) # <<>>
            /\ Requests[i].json =
                 ("@odata.id" :> (GRAPH_BASE \o "/directoryObjects/"
                                  \o UsersOf(Requests[i - 1])[1].id))
            /\ (env.OWNER_MAILNICKNAME = "jdoe"
                /\ UsersOf(Requests[i - 1]) = <<[id |-> "u-123"]>>) =>
                 Requests[i].json["@odata.id"] =
                   "https://graph.microsoft.com/v1.0/directoryObjects/u-123"

\* the lookup returned two users and the owner was added
C7_Witness ==
    /\ Len(Requests) >= 5
    /\ StepOf(Requests[5]) = "add_owner"
    /\ Ok(Requests[5].resp)
    /\ UsersOf(Requests[4]) = <<[id |-> "u-456"], [id |-> "u-123"]>>
    /\ error = NoError

---------------------------------------------------------------------------
(* C8 *)

\* C8: the notes update always submits the fixed literal, whatever
\* NOTES_TEXT was passed to create-application, and in every complete run
\* the final notes of the application are that literal: the final notes do
\* not depend on NOTES_TEXT.
C8_NotesLiteral ==
    /\ \A i \in 1..Len(Requests) :
         StepOf(Requests[i]) = "update_internal_notes" =>
            Requests[i].json = [notes |-> "Updated notes: now managed by CloudOps"]
    /\ pc = "done" =>
         directory.applications[app.id].notes = "Updated notes: now managed by CloudOps"

\* a complete run whose application was created with the caller's notes
C8_Witness ==
    /\ pc = "done"
    /\ env.NOTES_TEXT = "caller notes"
    /\ Requests[1].json.notes = "caller notes"

---------------------------------------------------------------------------
(* C9 *)

\* the exception message has x among its fragments
Carries(exc, x) == \E k \in 1..Len(exc.args) : exc.args[k] = x

\* C9: every API request answered with a non-success status, the add-secret
\* request included, fails with an error that carries the method, the full
\* URL, the HTTP status and the response body text.
C9_ErrorCarriesRequest ==
    \A i \in RequestEvents :
        ~Ok(log[i].resp) =>
            /\ error.type = "Exception"
            /\ Carries(error, log[i].method)
            /\ Carries(error, log[i].url)
            /\ Carries(error, StatusStr(log[i].resp.status))
            /\ Carries(error, log[i].resp.text)

---------------------------------------------------------------------------
(* C10 *)

\* C10: every API request is preceded in the transcript by its own token
\* acquisition, made after the previous request, and carries that token; no
\* two requests carry the same token; the number of tokens issued equals
\* the number of API requests issued.
C10_Reauthenticates ==
    /\ Cardinality(IssuedTokens) = Cardinality(RequestEvents)
    /\ \A i \in RequestEvents :
         /\ i - 1 \in IssuedTokens
         /\ log[i].headers.Authorization = <<"Bearer ", log[i - 1].resp.access_token>>
    /\ \A i, j \in RequestEvents :
         i # j => log[i].headers.Authorization # log[j].headers.Authorization

\* a token failure ended the run after two requests had been issued
C10_Witness ==
    /\ Len(Requests) = 2
    /\ Len(log) = 5
    /\ FailedTokens = {5}
    /\ pc = "failed"

====
